---- MODULE Spec2Model ----
(***************************************************************************)
(* A model of the manifest merge engine, the project resolver and the      *)
(* concurrent sync scheduler of manifest-parser (src/manifest-parser).     *)
(*                                                                         *)
(*   Spec         sync_repos: submission loop, worker pool, join barrier,  *)
(*                handle_errors, copy/link materialization, re-invocation  *)
(*   SpecResolve  the remote / revision resolution of process_project and  *)
(*                determine_jobs, over bounded manifests and projects      *)
(*   SpecMerge    merge_manifests over bounded bases and overlays          *)
(*   SpecOrder    two overlays merged into one base, in both orders        *)
(*   SpecLoad     Manifest::from_file and load_and_merge_manifests over    *)
(*                bounded sets of files                                    *)
(***************************************************************************)
EXTENDS Integers, Sequences, FiniteSets, TLC

VARIABLES
    manifest,      \* the effective manifest sync_repos loaded
    options,       \* SyncOptions
    project_list,  \* Option<Vec<&str>>: the caller's project-name filter
    run,           \* number of the current sync_repos invocation
    healthy,       \* the backend has no transient failure during this run
    jobs,          \* size of the worker pool (ThreadPool::new(jobs))
    mainPc,        \* position of the thread that called sync_repos
    nextIdx,       \* submission loop: index into projects_to_sync
    queue,         \* units handed to the pool and not yet picked up
    unit,          \* unit[i]: position of the closure of project i
    pendingErr,    \* unit[i]'s error, between the failure and the push
    errors,        \* Arc<Mutex<Vec<(String, String)>>>
    stop_flag,     \* Arc<AtomicBool>
    fs,            \* the filesystem: path -> "absent" | "dir" | "file" | "link"
    repo,          \* the repository inside each directory
    cmds,          \* per unit, the backend commands issued in this run
    seenAtStart,   \* per unit, whether its directory existed when it began
    prevFail,      \* per project, the clone step its previous run failed at
    matIdx,        \* materialization: <<project index, directive index>>
    result,        \* what sync_repos returned
    rIn, rOut,     \* resolver harness: input and output
    mBase, mLocal, mOut,  \* merge harness: base, overlay and merged manifest
    lIn, lOut, lmOut,     \* load harness: the files, and what the loads returned
    oIn, oOut             \* overlay-order harness: a base, two overlays, both orders

syncVars == <<manifest, options, project_list, run, healthy, jobs, mainPc,
              nextIdx, queue, unit, pendingErr, errors, stop_flag, fs, repo,
              cmds, seenAtStart, prevFail, matIdx, result>>
resolveVars == <<rIn, rOut>>
mergeVars == <<mBase, mLocal, mOut>>
loadVars == <<lIn, lOut, lmOut>>
orderVars == <<oIn, oOut>>
vars == <<syncVars, resolveVars, mergeVars, loadVars, orderVars>>
\* what the sync scheduler never touches
idle == <<resolveVars, mergeVars, loadVars, orderVars>>

(***************************************************************************)
(* Option<T>: None is the empty sequence, Some(x) the one-element one.     *)
(***************************************************************************)
None == <<>>
Some(x) == <<x>>
IsSome(o) == Len(o) = 1
IsNone(o) == Len(o) = 0
Unwrap(o) == o[1]
OrElse(o, alt) == IF IsSome(o) THEN o ELSE alt
UnwrapOr(o, d) == IF IsSome(o) THEN o[1] ELSE d
OptionOf(S) == {None} \cup {Some(x) : x \in S}

Min(a, b) == IF a < b THEN a ELSE b
Max(a, b) == IF a > b THEN a ELSE b
Range(s) == {s[i] : i \in 1..Len(s)}

(***************************************************************************)
(* str::parse::<usize>.  A string is the sequence of its characters.  An   *)
(* optional leading "+", then one or more decimal digits.                  *)
(***************************************************************************)
Digits == {"0", "1", "2", "3", "4", "5", "6", "7", "8", "9"}
DigitVal(c) ==
    CASE c = "0" -> 0 [] c = "1" -> 1 [] c = "2" -> 2 [] c = "3" -> 3
      [] c = "4" -> 4 [] c = "5" -> 5 [] c = "6" -> 6 [] c = "7" -> 7
      [] c = "8" -> 8 [] c = "9" -> 9

RECURSIVE DigitsValue(_, _)
DigitsValue(s, acc) ==
    IF s = <<>> THEN acc
    ELSE DigitsValue(Tail(s), acc * 10 + DigitVal(Head(s)))

ParseUsize(s) ==
    IF s = <<>> THEN None
    ELSE LET body == IF Head(s) = "+" THEN Tail(s) ELSE s
         IN  IF body = <<>> \/ \E i \in 1..Len(body) : body[i] \notin Digits
             THEN None
             ELSE Some(DigitsValue(body, 0))

Clamp(x, lo, hi) == IF x < lo THEN lo ELSE IF x > hi THEN hi ELSE x

(***************************************************************************)
(* determine_jobs                                                          *)
(***************************************************************************)
determine_jobs_NoClamp(m, o) ==
    Max(1, UnwrapOr(OrElse(o.jobs,
              IF IsSome(m.default) /\ IsSome(Unwrap(m.default).sync_j)
              THEN Some(UnwrapOr(ParseUsize(Unwrap(Unwrap(m.default).sync_j)), 1))
              ELSE None), 1))

determine_jobs(m, o) ==
    Clamp(UnwrapOr(OrElse(o.jobs,
              IF IsSome(m.default) /\ IsSome(Unwrap(m.default).sync_j)
              THEN Some(UnwrapOr(ParseUsize(Unwrap(Unwrap(m.default).sync_j)), 1))
              ELSE None), 1), 1, 4)

(***************************************************************************)
(* process_project, lines 381-413: remote and revision resolution.         *)
(***************************************************************************)
DefaultField(m, f) == IF IsSome(m.default) THEN Unwrap(m.default)[f] ELSE None

RemoteName(project, m) ==
    UnwrapOr(OrElse(project.remote, DefaultField(m, "remote")), "origin")

\* Iterator::find: the first remote of that name
FindRemote(remotes, name) ==
    IF \E i \in 1..Len(remotes) : remotes[i].name = name
    THEN Some(remotes[CHOOSE i \in 1..Len(remotes) :
                  /\ remotes[i].name = name
                  /\ \A j \in 1..(i - 1) : remotes[j].name # name])
    ELSE None

RepoUrl(remote, project) == remote.fetch \o "/" \o project.name \o ".git"

RemoteNotFoundMsg(name) == "Remote '" \o name \o "' not found in manifest"
NoDefaultMsg == "Default element is missing and project does not specify a revision"
NoRevisionMsg ==
    "Default element does not specify a revision and project does not specify a revision"

ResolveRevision_DefaultFirst(project, m) ==
    OrElse(DefaultField(m, "revision"), project.revision)

ResolveRevision(project, m) ==
    OrElse(project.revision, DefaultField(m, "revision"))

ResolveProject_IgnoreProjectRemote(project, m) ==
    LET remote_name == UnwrapOr(DefaultField(m, "remote"), "origin")
        remote == FindRemote(m.remotes, remote_name)
        revision == ResolveRevision(project, m)
    IN  IF IsNone(remote)
        THEN [ok |-> FALSE, kind |-> "RemoteNotFound",
              msg |-> RemoteNotFoundMsg(remote_name)]
        ELSE IF IsNone(revision)
        THEN [ok |-> FALSE, kind |-> "RevisionUnresolved",
              msg |-> IF IsNone(m.default) THEN NoDefaultMsg ELSE NoRevisionMsg]
        ELSE [ok |-> TRUE, remote_name |-> remote_name,
              repo_url |-> RepoUrl(Unwrap(remote), project),
              revision |-> Unwrap(revision)]

ResolveProject(project, m) ==
    LET remote_name == RemoteName(project, m)
        remote == FindRemote(m.remotes, remote_name)
        revision == ResolveRevision(project, m)
    IN  IF IsNone(remote)
        THEN [ok |-> FALSE, kind |-> "RemoteNotFound",
              msg |-> RemoteNotFoundMsg(remote_name)]
        ELSE IF IsNone(revision)
        THEN [ok |-> FALSE, kind |-> "RevisionUnresolved",
              msg |-> IF IsNone(m.default) THEN NoDefaultMsg ELSE NoRevisionMsg]
        ELSE [ok |-> TRUE, remote_name |-> remote_name,
              repo_url |-> RepoUrl(Unwrap(remote), project),
              revision |-> Unwrap(revision)]

(***************************************************************************)
(* Paths.  A path is the sequence of its components below the filesystem   *)
(* root; a path string of the manifest is parsed by Components.            *)
(***************************************************************************)
TargetRoot == <<"t">>

IsAbsolute(s) == s \in {"/x"}
Components(s) ==
    CASE s = "a"     -> <<"a">>
      [] s = "b"     -> <<"b">>
      [] s = "a/b"   -> <<"a", "b">>
      [] s = "f"     -> <<"f">>
      [] s = "g"     -> <<"g">>
      [] s = "out"   -> <<"out">>
      [] s = "d/out" -> <<"d", "out">>
      [] s = "/x"    -> <<"x">>
      [] s = "../x"  -> <<"..", "x">>
      [] s = "."     -> <<>>      \* Path::components drops a "." component

\* Path::join: an absolute argument replaces the base
PathJoin(base, s) == IF IsAbsolute(s) THEN Components(s) ELSE base \o Components(s)

\* Path::starts_with: whole components
StartsWith(p, base) == Len(base) <= Len(p) /\ SubSeq(p, 1, Len(base)) = base

Parent(p) == SubSeq(p, 1, Len(p) - 1)

\* the file the operating system reaches through p: a ".." component leaves
\* the directory reached so far (no directory of the model is a link)
RECURSIVE Resolve(_)
Resolve(p) ==
    IF p = <<>> THEN <<>>
    ELSE LET r == Resolve(Parent(p))
         IN  IF p[Len(p)] = ".." THEN (IF r = <<>> THEN <<>> ELSE Parent(r))
             ELSE Append(r, p[Len(p)])
Prefixes(p) == {SubSeq(p, 1, n) : n \in 1..Len(p)}

ProjectDirStrings == {"a", "b", "a/b", "/x"}
SrcStrings == {"f", "g", "."}
DestStrings == {"out", "d/out", "/x", "../x"}

PathUniverse ==
    LET dirs == {PathJoin(TargetRoot, s) : s \in ProjectDirStrings}
        leaves == dirs \cup {PathJoin(d, s) : d \in dirs, s \in SrcStrings}
                       \cup {PathJoin(TargetRoot, s) : s \in DestStrings}
    IN  UNION {Prefixes(Resolve(p)) : p \in leaves}

(***************************************************************************)
(* The filesystem.  fs[p] is a record: kind "absent", "dir", "file" or     *)
(* "link"; a link carries the path it points at.                           *)
(***************************************************************************)
Absent == [kind |-> "absent", to |-> <<>>]
Dir == [kind |-> "dir", to |-> <<>>]
File == [kind |-> "file", to |-> <<>>]
LinkTo(p) == [kind |-> "link", to |-> p]

\* follows one symbolic link, as stat does
Stat(f, p) ==
    LET q == Resolve(p)
    IN  IF q \notin PathUniverse THEN Absent
        ELSE IF f[q].kind = "link"
             THEN (IF f[q].to \in PathUniverse /\ f[f[q].to].kind # "link"
                   THEN f[f[q].to] ELSE Absent)
             ELSE f[q]
Exists(f, p) == Stat(f, p).kind # "absent"     \* Path::exists
IsDir(f, p) == Stat(f, p).kind = "dir"         \* Path::is_dir
IsFile(f, p) == Stat(f, p).kind = "file"       \* Path::is_file

\* fs::create_dir_all succeeds when every component is, or can be made, a
\* directory
CanCreateDirAll(f, p) ==
    \A q \in Prefixes(Resolve(p)) :
        q \in PathUniverse /\ (Exists(f, q) => IsDir(f, q))
CreateDirAll(f, p) ==
    [q \in PathUniverse |->
        IF q \in Prefixes(Resolve(p)) /\ ~Exists(f, q) THEN Dir ELSE f[q]]

(***************************************************************************)
(* The version-control backend (run_git_command: git -C <dir> <args>).     *)
(* repo[d] is the repository whose .git lies in directory d.  A command    *)
(* other than init acts on the repository git discovers from <dir>: the    *)
(* nearest enclosing directory that holds one.                             *)
(***************************************************************************)
NoRepo == [git |-> FALSE, origin |-> "none", fetch_head |-> "none", head |-> "none"]

Discover(r, d) ==
    LET holders == {q \in Prefixes(d) : q \in PathUniverse /\ r[q].git}
    IN  IF holders = {} THEN None
        ELSE Some(CHOOSE q \in holders : \A h \in holders : Len(h) <= Len(q))

\* whether the repository state makes the command valid
GitValid(f, r, d, cmd, arg) ==
    /\ IsDir(f, d)
    /\ CASE cmd = "init" -> TRUE
         [] cmd = "remote_add" ->
                IsSome(Discover(r, d)) /\ r[Unwrap(Discover(r, d))].origin = "none"
         [] cmd \in {"fetch", "ufetch"} ->
                IsSome(Discover(r, d)) /\ r[Unwrap(Discover(r, d))].origin # "none"
         [] cmd \in {"checkout_fetch_head", "reset"} ->
                IsSome(Discover(r, d)) /\ r[Unwrap(Discover(r, d))].fetch_head # "none"
         [] cmd = "checkout_rev" ->
                IsSome(Discover(r, d)) /\ r[Unwrap(Discover(r, d))].fetch_head = arg

\* the repository after a successful command
GitRepoEffect(r, d, cmd, arg) ==
    IF cmd = "init" THEN [r EXCEPT ![d].git = TRUE]
    ELSE LET q == Unwrap(Discover(r, d))
         IN  CASE cmd = "remote_add" -> [r EXCEPT ![q].origin = arg]
               [] cmd \in {"fetch", "ufetch"} -> [r EXCEPT ![q].fetch_head = arg]
               [] cmd \in {"checkout_fetch_head", "reset"} ->
                      [r EXCEPT ![q].head = r[q].fetch_head]
               [] cmd = "checkout_rev" -> [r EXCEPT ![q].head = arg]

\* the working tree after a successful command: a checkout writes the
\* repository's file "f"
GitFsEffect(f, r, d, cmd) ==
    IF cmd \in {"checkout_fetch_head", "reset", "checkout_rev"}
    THEN LET w == PathJoin(Unwrap(Discover(r, d)), "f")
         IN  [f EXCEPT ![w] = IF f[w].kind = "absent" THEN File ELSE f[w]]
    ELSE f

(***************************************************************************)
(* Bounds of the model.                                                    *)
(***************************************************************************)
NumProjects == 2     \* projects of the manifest being synced
MaxRuns == 2         \* invocations of sync_repos on the same target

(***************************************************************************)
(* The manifests, options and filters sync_repos is run on.                *)
(***************************************************************************)
MkProject(name, path, remote, revision, copyfiles, linkfiles) ==
    [name |-> name, path |-> path, remote |-> remote, revision |-> revision,
     dest_branch |-> None, groups |-> None, sync_c |-> None, sync_s |-> None,
     sync_tags |-> None, upstream |-> None, clone_depth |-> None,
     force_path |-> None,
     copyfiles |-> copyfiles, linkfiles |-> linkfiles]

MkDefault(remote, revision, sync_j) ==
    [remote |-> remote, revision |-> revision, dest_branch |-> None,
     upstream |-> None, sync_j |-> sync_j, sync_c |-> None, sync_s |-> None,
     sync_tags |-> None]

\* Manifest::from_file, lines 218-235: a manifest with nothing parsed yet
EmptyManifest ==
    [notice |-> None, remotes |-> <<>>, default |-> None,
     manifest_server |-> None, submanifests |-> <<>>,
     remove_projects |-> <<>>, projects |-> <<>>, extend_projects |-> <<>>,
     repo_hooks |-> None, superproject |-> None, contactinfo |-> None,
     includes |-> <<>>, copyfiles |-> <<>>, linkfiles |-> <<>>,
     annotations |-> <<>>]

MkManifest(remotes, default, projects) ==
    [EmptyManifest EXCEPT !.remotes = remotes, !.default = default,
                          !.projects = projects]

OriginRemote == [name |-> "origin", fetch |-> "https://example.com"]

NameOrders == {<<"a", "b", "a/b">>, <<"a/b", "a", "b">>}
NoDirectives == <<<<>>, <<>>>>
CopyOut == <<<<[src |-> "f", dest |-> "out"]>>, <<>>>>
DirectiveChoices ==
    { NoDirectives,
      CopyOut,
      <<<<>>, <<[src |-> "f", dest |-> "d/out"]>>>>,
      <<<<[src |-> "f", dest |-> "/x"]>>, <<>>>>,
      <<<<[src |-> "f", dest |-> "../x"]>>, <<>>>>,
      <<<<[src |-> ".", dest |-> "d/out"]>>, <<>>>> }
SyncJChoices == {None, Some(<<"8">>), Some(<<"x">>)}
JobsChoices == {None, Some(0), Some(2)}
ProjectListChoices == {None, Some(<<"a">>)}

\* project i of a manifest: "plain" takes remote and revision from the
\* default, "ghost" names a remote the manifest does not have, "outside"
\* is a plain project whose path attribute is the absolute path /x; only
\* the first project owns copy/link directives
SyncProject(order, kinds, dirs, i) ==
    MkProject(order[i],
              IF kinds[i] = "outside" THEN Some("/x")
              ELSE IF order[i] = "b" THEN None ELSE Some(order[i]),
              IF kinds[i] = "ghost" THEN Some("ghost") ELSE None,
              None,
              IF i = 1 THEN dirs[1] ELSE <<>>,
              IF i = 1 THEN dirs[2] ELSE <<>>)

\* the runs explored: every layout, project kind and keep, with the
\* directives, the job settings, detach and the filter varied one at a time
SyncConfigs ==
    { c \in [order : NameOrders,
             kinds : [1..NumProjects -> {"plain", "ghost", "outside"}],
             dirs : DirectiveChoices,
             sync_j : SyncJChoices,
             jobs : JobsChoices,
             list : ProjectListChoices,
             keep : BOOLEAN,
             detach : BOOLEAN] :
        /\ c.dirs # NoDirectives =>
               /\ c.sync_j = None
               /\ c.jobs = None \/ (c.jobs = Some(2) /\ c.dirs = CopyOut)
        /\ c.sync_j # None => c.jobs \in {None, Some(0)}
        /\ c.detach => (c.dirs = NoDirectives /\ c.sync_j = None /\ c.jobs = None)
        /\ c.list # None =>
               (c.dirs = NoDirectives /\ c.sync_j = None /\ c.jobs = None
                /\ ~c.detach)
        /\ \A i \in 1..NumProjects :
               c.kinds[i] = "outside" =>
                   (i = 1 /\ c.dirs = NoDirectives /\ c.sync_j = None
                    /\ c.jobs = None /\ ~c.detach /\ c.list = None) }

ConfigManifest(c) ==
    MkManifest(<<OriginRemote>>,
               Some(MkDefault(Some("origin"), Some("main"), c.sync_j)),
               [i \in 1..NumProjects |-> SyncProject(c.order, c.kinds, c.dirs, i)])

ConfigOptions(c) == [keep |-> c.keep, detach |-> c.detach, jobs |-> c.jobs]

(***************************************************************************)
(* sync_repos                                                              *)
(***************************************************************************)
\* lines 83-91: the projects selected by the caller's filter
ProjectsToSync ==
    IF IsSome(project_list)
    THEN SelectSeq(manifest.projects,
                   LAMBDA p : p.name \in Range(Unwrap(project_list)))
    ELSE manifest.projects

Units == 1..Len(ProjectsToSync)

\* lines 378-379 and 137-138
ProjectPath(project) == PathJoin(TargetRoot, UnwrapOr(project.path, project.name))
UnitPath(i) == ProjectPath(ProjectsToSync[i])

ClonePcs == {"mkdir", "init", "remote_add", "fetch", "checkout_fetch_head"}
UpdatePcs == {"ufetch", "reset"}
BodyPcs == {"exists"} \cup ClonePcs \cup UpdatePcs \cup {"checkout_rev"}
ActivePcs == {"begin", "push", "flag"} \cup BodyPcs
FinishedPcs == {"ok", "failed", "skipped"}

Active(i) == unit[i] \in ActivePcs
Running == {i \in Units : Active(i)}

NoError == [step |-> "none", msg |-> ""]
NoResult == [status |-> "none", msg |-> "", pairs |-> <<>>]
OkResult == [status |-> "ok", msg |-> "", pairs |-> <<>>]
ErrResult(msg) == [status |-> "err", msg |-> msg, pairs |-> <<>>]

\* the state of an invocation before its first step
FreshRun ==
    /\ mainPc = "start"
    /\ nextIdx = 1
    /\ queue = <<>>
    /\ unit = [i \in Units |-> "new"]
    /\ pendingErr = [i \in Units |-> NoError]
    /\ errors = <<>>
    /\ stop_flag = FALSE
    /\ cmds = [i \in Units |-> <<>>]
    /\ seenAtStart = [i \in Units |-> FALSE]
    /\ matIdx = <<1, 1>>
    /\ result = NoResult

ResolveIdle == rIn = <<>> /\ rOut = <<>>
MergeIdle == mBase = <<>> /\ mLocal = <<>> /\ mOut = <<>>
LoadIdle == lIn = <<>> /\ lOut = <<>> /\ lmOut = <<>>
OrderIdle == oIn = <<>> /\ oOut = <<>>

Init ==
    /\ \E c \in SyncConfigs :
           /\ manifest = ConfigManifest(c)
           /\ options = ConfigOptions(c)
           /\ project_list = c.list
    /\ run = 1
    /\ healthy = FALSE
    /\ jobs = 0
    /\ fs = [p \in PathUniverse |-> Absent]
    /\ repo = [p \in PathUniverse |-> NoRepo]
    /\ prevFail = [i \in Units |-> "none"]
    /\ FreshRun
    /\ ResolveIdle
    /\ MergeIdle
    /\ LoadIdle
    /\ OrderIdle

\* lines 94-107: create the target directory, size the pool
SyncStart ==
    /\ mainPc = "start"
    /\ \/ /\ Exists(fs, TargetRoot) \/ CanCreateDirAll(fs, TargetRoot)
          /\ fs' = IF Exists(fs, TargetRoot) THEN fs
                   ELSE CreateDirAll(fs, TargetRoot)
          /\ jobs' = determine_jobs(manifest, options)
          /\ mainPc' = "submit"
          /\ UNCHANGED result
       \/ /\ ~Exists(fs, TargetRoot)
          /\ ~healthy
          /\ result' = ErrResult("create_dir_all failed")
          /\ mainPc' = "done"
          /\ UNCHANGED <<fs, jobs>>
    /\ UNCHANGED <<idle, manifest, options, project_list, run, healthy, nextIdx,
                   queue, unit, pendingErr, errors, stop_flag, repo, cmds,
                   seenAtStart, prevFail, matIdx>>

\* lines 111 and 120: !options.keep && stop_flag.load(Ordering::Relaxed)
StopRequested_IgnoreKeep == stop_flag

StopRequested == ~options.keep /\ stop_flag

\* lines 109-113: the head of the submission loop: the next project, and
\* the test of the stop flag that leaves the loop
Submit ==
    /\ mainPc = "submit"
    /\ mainPc' = IF nextIdx > Len(ProjectsToSync) \/ StopRequested
                 THEN "join" ELSE "execute"
    /\ UNCHANGED <<idle, manifest, options, project_list, run, healthy, jobs,
                   nextIdx, queue, unit, pendingErr, errors, stop_flag, fs,
                   repo, cmds, seenAtStart, prevFail, matIdx, result>>

\* lines 114-128: pool.execute hands the closure of the project to the pool
Execute ==
    /\ mainPc = "execute"
    /\ queue' = Append(queue, nextIdx)
    /\ unit' = [unit EXCEPT ![nextIdx] = "queued"]
    /\ nextIdx' = nextIdx + 1
    /\ mainPc' = "submit"
    /\ UNCHANGED <<idle, manifest, options, project_list, run, healthy, jobs,
                   pendingErr, errors, stop_flag, fs, repo, cmds, seenAtStart,
                   prevFail, matIdx, result>>

\* a pool of `jobs` threads: an idle thread takes the oldest queued unit
PoolHasIdleThread == Cardinality(Running) < jobs

Dequeue(i) ==
    /\ queue # <<>>
    /\ i = Head(queue)
    /\ PoolHasIdleThread
    /\ queue' = Tail(queue)
    /\ unit' = [unit EXCEPT ![i] = "begin"]
    /\ UNCHANGED <<idle, manifest, options, project_list, run, healthy, jobs,
                   mainPc, nextIdx, pendingErr, errors, stop_flag, fs, repo,
                   cmds, seenAtStart, prevFail, matIdx, result>>

\* lines 120-123 and 376-415: the stop-flag test, then resolution
Begin(i) ==
    /\ unit[i] = "begin"
    /\ seenAtStart' = [seenAtStart EXCEPT ![i] = Exists(fs, UnitPath(i))]
    /\ IF StopRequested
       THEN /\ unit' = [unit EXCEPT ![i] = "skipped"]
            /\ UNCHANGED pendingErr
       ELSE LET r == ResolveProject(ProjectsToSync[i], manifest)
            IN  IF r.ok
                THEN /\ unit' = [unit EXCEPT ![i] = "exists"]
                     /\ UNCHANGED pendingErr
                ELSE /\ unit' = [unit EXCEPT ![i] = "push"]
                     /\ pendingErr' = [pendingErr EXCEPT
                            ![i] = [step |-> "resolve", msg |-> r.msg]]
    /\ UNCHANGED <<idle, manifest, options, project_list, run, healthy, jobs,
                   mainPc, nextIdx, queue, errors, stop_flag, fs, repo, cmds,
                   prevFail, matIdx, result>>

unitFrame == <<idle, manifest, options, project_list, run, healthy, jobs, mainPc,
               nextIdx, queue, errors, stop_flag, seenAtStart, prevFail,
               matIdx, result>>

Fail(i, step, msg) ==
    /\ unit' = [unit EXCEPT ![i] = "push"]
    /\ pendingErr' = [pendingErr EXCEPT ![i] = [step |-> step, msg |-> msg]]

\* lines 417-423: clone or update
process_project_TakesClone(i) == "mkdir"

process_project_Branch(i) ==
    IF Exists(fs, UnitPath(i)) THEN "ufetch" ELSE "mkdir"

ExistsCheck(i) ==
    /\ unit[i] = "exists"
    /\ unit' = [unit EXCEPT ![i] = process_project_Branch(i)]
    /\ UNCHANGED <<pendingErr, fs, repo, cmds>>
    /\ UNCHANGED unitFrame

\* lines 472-479: clone_repository creates the directory when it is missing
CloneMkdir(i) ==
    /\ unit[i] = "mkdir"
    /\ IF Exists(fs, UnitPath(i))
       THEN /\ unit' = [unit EXCEPT ![i] = "init"]
            /\ UNCHANGED <<pendingErr, fs, cmds>>
       ELSE /\ cmds' = [cmds EXCEPT ![i] = Append(@, "mkdir")]
            /\ \/ /\ CanCreateDirAll(fs, UnitPath(i))
                  /\ fs' = CreateDirAll(fs, UnitPath(i))
                  /\ unit' = [unit EXCEPT ![i] = "init"]
                  /\ UNCHANGED pendingErr
               \/ /\ ~healthy \/ ~CanCreateDirAll(fs, UnitPath(i))
                  /\ Fail(i, "mkdir", "create_dir_all failed")
                  /\ UNCHANGED fs
    /\ UNCHANGED repo
    /\ UNCHANGED unitFrame

\* run_git_command: the command succeeds only if the repository state makes
\* it valid, and fails for sure only if it does not or the backend is unwell
RunGit(i, cmd, arg, next) ==
    /\ unit[i] = cmd
    /\ cmds' = [cmds EXCEPT ![i] = Append(@, cmd)]
    /\ \/ /\ GitValid(fs, repo, UnitPath(i), cmd, arg)
          /\ repo' = GitRepoEffect(repo, UnitPath(i), cmd, arg)
          /\ fs' = GitFsEffect(fs, repo', UnitPath(i), cmd)
          /\ unit' = [unit EXCEPT ![i] = next]
          /\ UNCHANGED pendingErr
       \/ /\ ~healthy \/ ~GitValid(fs, repo, UnitPath(i), cmd, arg)
          /\ Fail(i, cmd, "Git command failed")
          /\ UNCHANGED <<fs, repo>>
    /\ UNCHANGED unitFrame

UnitResolved(i) == ResolveProject(ProjectsToSync[i], manifest)

\* the argument vector run_git_command is given for each command of the
\* model: clone_repository 485-505, fetch_and_rebase 446-455,
\* checkout_revision 516
GitArgs(cmd, repo_url, revision) ==
    CASE cmd = "init" -> <<"init">>
      [] cmd = "remote_add" -> <<"remote", "add", "origin", repo_url>>
      [] cmd = "fetch" -> <<"fetch", "--depth", "1", "origin", revision>>
      [] cmd = "checkout_fetch_head" -> <<"checkout", "FETCH_HEAD">>
      [] cmd = "ufetch" -> <<"fetch", "origin", "--prune", "--depth", "1", revision>>
      [] cmd = "reset" -> <<"reset", "--hard", "FETCH_HEAD">>
      [] cmd = "checkout_rev" -> <<"checkout", revision>>

AfterSync_AlwaysDetach == "checkout_rev"

\* lines 425-430: the detach checkout, or the end of process_project
AfterSync == IF options.detach THEN "checkout_rev" ELSE "ok"

\* clone_repository, lines 481-512
CloneInit(i) == RunGit(i, "init", "", "remote_add")
CloneRemoteAdd(i) ==
    RunGit(i, "remote_add", UnitResolved(i).repo_url, "fetch")
CloneFetch(i) ==
    RunGit(i, "fetch", UnitResolved(i).revision, "checkout_fetch_head")
CloneCheckout(i) == RunGit(i, "checkout_fetch_head", "", AfterSync)

\* fetch_and_rebase, lines 433-461
UpdateFetch(i) == RunGit(i, "ufetch", UnitResolved(i).revision, "reset")
UpdateReset(i) == RunGit(i, "reset", "", AfterSync)

\* checkout_revision, lines 515-517
DetachCheckout(i) == RunGit(i, "checkout_rev", UnitResolved(i).revision, "ok")

PushError_Overwrites(i) ==
    /\ unit[i] = "push"
    /\ errors' = <<<<ProjectsToSync[i].name, pendingErr[i].msg>>>>
    /\ unit' = [unit EXCEPT ![i] = "flag"]
    /\ UNCHANGED <<idle, manifest, options, project_list, run, healthy, jobs,
                   mainPc, nextIdx, queue, pendingErr, stop_flag, fs, repo,
                   cmds, seenAtStart, prevFail, matIdx, result>>

\* lines 124-125: lock the list and push (project.name, e.to_string())
PushError(i) ==
    /\ unit[i] = "push"
    /\ errors' = Append(errors, <<ProjectsToSync[i].name, pendingErr[i].msg>>)
    /\ unit' = [unit EXCEPT ![i] = "flag"]
    /\ UNCHANGED <<idle, manifest, options, project_list, run, healthy, jobs,
                   mainPc, nextIdx, queue, pendingErr, stop_flag, fs, repo,
                   cmds, seenAtStart, prevFail, matIdx, result>>

\* line 126: stop_flag.store(true)
SetStopFlag(i) ==
    /\ unit[i] = "flag"
    /\ stop_flag' = TRUE
    /\ unit' = [unit EXCEPT ![i] = "failed"]
    /\ UNCHANGED <<idle, manifest, options, project_list, run, healthy, jobs,
                   mainPc, nextIdx, queue, pendingErr, errors, fs, repo, cmds,
                   seenAtStart, prevFail, matIdx, result>>

\* line 131: pool.join() returns when no unit is queued or active
JoinReady_QueueOnly == queue = <<>>

JoinReady == queue = <<>> /\ Running = {}

Join ==
    /\ mainPc = "join"
    /\ JoinReady
    /\ mainPc' = "handle_errors"
    /\ UNCHANGED <<idle, manifest, options, project_list, run, healthy, jobs,
                   nextIdx, queue, unit, pendingErr, errors, stop_flag, fs,
                   repo, cmds, seenAtStart, prevFail, matIdx, result>>

\* lines 525-539
SyncFailedMsg == "Sync failed due to errors"

handle_errors_AlwaysOk(errs, keep) == OkResult

handle_errors(errs, keep) ==
    IF errs # <<>> /\ ~keep THEN ErrResult(SyncFailedMsg) ELSE OkResult

\* line 133
HandleErrors ==
    /\ mainPc = "handle_errors"
    /\ LET r == handle_errors(errors, options.keep)
       IN  IF r.status = "err"
           THEN /\ result' = r
                /\ mainPc' = "done"
           ELSE /\ mainPc' = "materialize"
                /\ UNCHANGED result
    /\ UNCHANGED <<idle, manifest, options, project_list, run, healthy, jobs,
                   nextIdx, queue, unit, pendingErr, errors, stop_flag, fs,
                   repo, cmds, seenAtStart, prevFail, matIdx>>

(***************************************************************************)
(* handle_copyfiles_and_linkfiles, lines 168-208.  The outcomes of one     *)
(* directive on filesystem f: whether it returned Ok, and the filesystem   *)
(* it left.  `well` is the absence of transient I/O failures.              *)
(***************************************************************************)
DirErr(f, msg) == [ok |-> FALSE, msg |-> msg, fs |-> f]
DirOk(f) == [ok |-> TRUE, msg |-> "", fs |-> f]

\* std::fs::copy writes through a symbolic link at dest
CopyTo(f, dest) ==
    LET q == Resolve(dest)
    IN  IF f[q].kind = "link"
        THEN [f EXCEPT ![f[q].to] = File]
        ELSE [f EXCEPT ![q] = File]

OutsideMsg == "Source or destination path is outside the target directory"

handle_copyfiles_and_linkfiles(f, src, dest, target_path, is_symlink, well) ==
    IF ~StartsWith(src, target_path) \/ ~StartsWith(dest, target_path)
    THEN {DirErr(f, OutsideMsg)}
    ELSE IF ~Exists(f, src)
    THEN {DirErr(f, "Source does not exist")}
    ELSE IF Exists(f, dest) /\ IsDir(f, dest)
    THEN {DirErr(f, "Destination is a directory")}
    ELSE IF ~CanCreateDirAll(f, Parent(dest))
    THEN {DirErr(f, "create_dir_all failed")}
    ELSE
      LET f1 == CreateDirAll(f, Parent(dest))
          transient == IF well THEN {} ELSE {DirErr(f1, "I/O error")}
      IN  transient \cup
          (IF is_symlink
           THEN (IF f1[Resolve(dest)].kind # "absent"
                 THEN {DirErr(f1, "File exists")}
                 ELSE {DirOk([f1 EXCEPT ![Resolve(dest)] = LinkTo(Resolve(src))])})
           ELSE IF ~IsFile(f1, src)
           THEN {DirErr(f1, "Source is not a file")}
           ELSE IF Exists(f1, dest) /\ ~IsFile(f1, dest)
           THEN {DirErr(f1, "Destination is not a file")}
           ELSE {DirOk(CopyTo(f1, dest))})

\* lines 135-155: the directives of project i in the order the loop visits
\* them: its copyfiles, then its linkfiles
Directives(i) ==
    LET p == ProjectsToSync[i]
    IN  [k \in 1..Len(p.copyfiles) |->
            [src |-> p.copyfiles[k].src, dest |-> p.copyfiles[k].dest,
             is_symlink |-> FALSE]]
        \o
        [k \in 1..Len(p.linkfiles) |->
            [src |-> p.linkfiles[k].src, dest |-> p.linkfiles[k].dest,
             is_symlink |-> TRUE]]

\* the next directive at or after position <<i, k>>, or <<n + 1, 1>>
RECURSIVE NextDirective(_, _)
NextDirective(i, k) ==
    IF i > Len(ProjectsToSync) THEN <<i, 1>>
    ELSE IF k <= Len(Directives(i)) THEN <<i, k>>
    ELSE NextDirective(i + 1, 1)

\* lines 135-157: one directive of the materialization loop, or its end
Materialize ==
    /\ mainPc = "materialize"
    /\ LET at == NextDirective(matIdx[1], matIdx[2])
       IN  IF at[1] > Len(ProjectsToSync)
           THEN /\ result' = OkResult
                /\ mainPc' = "done"
                /\ matIdx' = at
                /\ UNCHANGED fs
           ELSE LET d == Directives(at[1])[at[2]]
                    project_path == UnitPath(at[1])
                IN  \E o \in handle_copyfiles_and_linkfiles(
                                 fs, PathJoin(project_path, d.src),
                                 PathJoin(TargetRoot, d.dest), TargetRoot,
                                 d.is_symlink, healthy) :
                        /\ fs' = o.fs
                        /\ IF o.ok
                           THEN /\ matIdx' = <<at[1], at[2] + 1>>
                                /\ UNCHANGED <<mainPc, result>>
                           ELSE /\ result' = ErrResult(o.msg)
                                /\ mainPc' = "done"
                                /\ matIdx' = at
    /\ UNCHANGED <<idle, manifest, options, project_list, run, healthy, jobs,
                   nextIdx, queue, unit, pendingErr, errors, stop_flag, repo,
                   cmds, seenAtStart, prevFail>>

\* the caller invokes sync_repos again with the same arguments on the same
\* target directory
Reinvoke ==
    /\ mainPc = "done"
    /\ run < MaxRuns
    /\ run' = run + 1
    /\ healthy' \in BOOLEAN
    /\ prevFail' = [i \in Units |->
                       IF unit[i] = "failed" THEN pendingErr[i].step ELSE "none"]
    /\ mainPc' = "start"
    /\ nextIdx' = 1
    /\ queue' = <<>>
    /\ unit' = [i \in Units |-> "new"]
    /\ pendingErr' = [i \in Units |-> NoError]
    /\ errors' = <<>>
    /\ stop_flag' = FALSE
    /\ cmds' = [i \in Units |-> <<>>]
    /\ seenAtStart' = [i \in Units |-> FALSE]
    /\ matIdx' = <<1, 1>>
    /\ result' = NoResult
    /\ UNCHANGED <<idle, manifest, options, project_list, jobs, fs, repo>>

Next ==
    \/ SyncStart
    \/ Submit
    \/ Execute
    \/ \E i \in Units : Dequeue(i)
    \/ \E i \in Units : Begin(i)
    \/ \E i \in Units : ExistsCheck(i)
    \/ \E i \in Units : CloneMkdir(i)
    \/ \E i \in Units : CloneInit(i)
    \/ \E i \in Units : CloneRemoteAdd(i)
    \/ \E i \in Units : CloneFetch(i)
    \/ \E i \in Units : CloneCheckout(i)
    \/ \E i \in Units : UpdateFetch(i)
    \/ \E i \in Units : UpdateReset(i)
    \/ \E i \in Units : DetachCheckout(i)
    \/ \E i \in Units : PushError(i)
    \/ \E i \in Units : SetStopFlag(i)
    \/ Join
    \/ HandleErrors
    \/ Materialize
    \/ Reinvoke

Spec == Init /\ [][Next]_vars

(***************************************************************************)
(* merge_manifests, lines 251-355                                          *)
(***************************************************************************)
MkRemoveProject(name, path, base_rev) ==
    [name |-> name, path |-> path, optional |-> None, base_rev |-> base_rev]

MkExtendProject(name, path, dest_path, revision) ==
    [name |-> name, path |-> path, dest_path |-> dest_path, groups |-> None,
     revision |-> revision, remote |-> None, dest_branch |-> None,
     upstream |-> None, base_rev |-> None]

\* lines 256-267: whether the directive matches the project
should_remove(project, remove_project) ==
    IF IsSome(remove_project.name)
    THEN /\ project.name = Unwrap(remove_project.name)
         /\ IF IsSome(remove_project.path)
            THEN project.path = remove_project.path
            ELSE TRUE
    ELSE IF IsSome(remove_project.path)
         THEN project.path = remove_project.path
         ELSE FALSE

\* lines 255-285: the closure given to Vec::retain
retain_IgnoreBaseRev(project, remove_project) ==
    ~should_remove(project, remove_project)

retain(project, remove_project) ==
    IF should_remove(project, remove_project)
    THEN IsSome(remove_project.base_rev)
         /\ project.revision # remove_project.base_rev
    ELSE TRUE

\* lines 253-307: the directives in order, each on what the last one left
RECURSIVE ApplyRemoves(_, _)
ApplyRemoves(projects, remove_projects) ==
    IF remove_projects = <<>> THEN projects
    ELSE ApplyRemoves(SelectSeq(projects,
                                LAMBDA p : retain(p, Head(remove_projects))),
                      Tail(remove_projects))

\* lines 312-340: one extend-project on one project
Overwrite(old, new) == IF IsSome(new) THEN new ELSE old

ExtendOne_NoPathGuard(project, extend_project) ==
    IF project.name = extend_project.name
    THEN [project EXCEPT
            !.path = Overwrite(@, extend_project.dest_path),
            !.groups = Overwrite(@, extend_project.groups),
            !.revision = Overwrite(@, extend_project.revision),
            !.remote = Overwrite(@, extend_project.remote),
            !.dest_branch = Overwrite(@, extend_project.dest_branch),
            !.upstream = Overwrite(@, extend_project.upstream)]
    ELSE project

ExtendOne(project, extend_project) ==
    IF /\ project.name = extend_project.name
       /\ ~(IsSome(extend_project.path) /\ project.path # extend_project.path)
    THEN [project EXCEPT
            !.path = Overwrite(@, extend_project.dest_path),
            !.groups = Overwrite(@, extend_project.groups),
            !.revision = Overwrite(@, extend_project.revision),
            !.remote = Overwrite(@, extend_project.remote),
            !.dest_branch = Overwrite(@, extend_project.dest_branch),
            !.upstream = Overwrite(@, extend_project.upstream)]
    ELSE project

\* lines 310-342
RECURSIVE ApplyExtends(_, _)
ApplyExtends(projects, extend_projects) ==
    IF extend_projects = <<>> THEN projects
    ELSE ApplyExtends([j \in 1..Len(projects) |->
                          ExtendOne(projects[j], Head(extend_projects))],
                      Tail(extend_projects))

merge_manifests_ExtendsFirst(base, local) ==
    [base EXCEPT
        !.projects = ApplyRemoves(ApplyExtends(base.projects \o local.projects,
                                               local.extend_projects),
                                  local.remove_projects),
        !.remotes = @ \o local.remotes,
        !.default = OrElse(local.default, @),
        !.manifest_server = OrElse(local.manifest_server, @),
        !.submanifests = @ \o local.submanifests,
        !.remove_projects = @ \o local.remove_projects,
        !.extend_projects = @ \o local.extend_projects,
        !.repo_hooks = OrElse(local.repo_hooks, @),
        !.superproject = OrElse(local.superproject, @),
        !.contactinfo = OrElse(local.contactinfo, @),
        !.includes = @ \o local.includes]

merge_manifests(base, local) ==
    [base EXCEPT
        !.projects = ApplyExtends(ApplyRemoves(base.projects,
                                               local.remove_projects),
                                  local.extend_projects) \o local.projects,
        !.remotes = @ \o local.remotes,
        !.default = OrElse(local.default, @),
        !.manifest_server = OrElse(local.manifest_server, @),
        !.submanifests = @ \o local.submanifests,
        !.remove_projects = @ \o local.remove_projects,
        !.extend_projects = @ \o local.extend_projects,
        !.repo_hooks = OrElse(local.repo_hooks, @),
        !.superproject = OrElse(local.superproject, @),
        !.contactinfo = OrElse(local.contactinfo, @),
        !.includes = @ \o local.includes]

(***************************************************************************)
(* The resolver and the merge on their own: each is applied once to an     *)
(* input drawn from a bounded set, the scheduler standing still.           *)
(***************************************************************************)
MaxRemotes == 2        \* remotes of a manifest given to the resolver
MaxBaseProjects == 2   \* projects of a base manifest given to the merge
MaxRemoves == 2        \* remove-project directives of an overlay

SeqsUpTo(S, n) == UNION {[1..k -> S] : k \in 0..n}

SyncIdle ==
    /\ manifest = EmptyManifest
    /\ options = [keep |-> FALSE, detach |-> FALSE, jobs |-> None]
    /\ project_list = None
    /\ run = 0
    /\ healthy = TRUE
    /\ jobs = 0
    /\ mainPc = "idle"
    /\ nextIdx = 1
    /\ queue = <<>>
    /\ unit = <<>>
    /\ pendingErr = <<>>
    /\ errors = <<>>
    /\ stop_flag = FALSE
    /\ fs = [p \in PathUniverse |-> Absent]
    /\ repo = [p \in PathUniverse |-> NoRepo]
    /\ cmds = <<>>
    /\ seenAtStart = <<>>
    /\ prevFail = <<>>
    /\ matIdx = <<1, 1>>
    /\ result = NoResult

ResolveRemotes ==
    { OriginRemote,
      [name |-> "mirror", fetch |-> "https://mirror.example.com"],
      [name |-> "mirror", fetch |-> "https://other.example.com"] }

ResolveInputs ==
    [project : {MkProject(n, None, r, v, <<>>, <<>>) :
                   n \in {"a", "a/b"},
                   r \in OptionOf({"origin", "mirror", "ghost"}),
                   v \in OptionOf({"dev"})},
     manifest : {MkManifest(rs, d, <<>>) :
                   rs \in SeqsUpTo(ResolveRemotes, MaxRemotes),
                   d \in {None} \cup
                         {Some(MkDefault(r, v, None)) :
                             r \in OptionOf({"mirror", "ghost"}),
                             v \in OptionOf({"main"})}}]

InitResolve ==
    /\ SyncIdle
    /\ MergeIdle
    /\ LoadIdle
    /\ OrderIdle
    /\ rIn \in ResolveInputs
    /\ rOut = None

\* process_project called on rIn, up to the end of resolution (line 415)
ResolveCall ==
    /\ rOut = None
    /\ rOut' = Some(ResolveProject(rIn.project, rIn.manifest))
    /\ UNCHANGED <<syncVars, mergeVars, loadVars, orderVars, rIn>>

NextResolve == ResolveCall

SpecResolve == InitResolve /\ [][NextResolve]_vars

MergeProjects ==
    { MkProject("a", None, None, Some("main"), <<>>, <<>>),
      MkProject("a", Some("a"), None, Some("main"), <<>>, <<>>),
      MkProject("a", None, None, Some("dev"), <<>>, <<>>),
      MkProject("a", Some("a"), None, None, <<>>, <<>>),
      MkProject("b", Some("a"), None, Some("main"), <<>>, <<>>),
      MkProject("b", None, None, Some("dev"), <<>>, <<>>) }

MergeRemoves ==
    { MkRemoveProject(Some("a"), None, None),
      MkRemoveProject(Some("a"), None, Some("main")),
      MkRemoveProject(Some("a"), Some("a"), Some("main")),
      MkRemoveProject(None, Some("a"), Some("main")),
      MkRemoveProject(None, Some("a"), None),
      MkRemoveProject(None, None, Some("main")) }

MergeExtendChoices ==
    { <<>>,
      <<MkExtendProject("a", None, None, Some("main"))>>,
      <<MkExtendProject("a", Some("a"), Some("q"), Some("dev"))>>,
      <<[MkExtendProject("b", None, None, None) EXCEPT
            !.groups = Some("g"), !.remote = Some("mirror"),
            !.dest_branch = Some("rel"), !.upstream = Some("up")]>>,
      <<MkExtendProject("a", Some("a"), Some("q"), None),
        MkExtendProject("a", Some("q"), None, Some("dev"))>> }

MergeOverlayProjectChoices ==
    { <<>>, <<MkProject("a", None, None, Some("main"), <<>>, <<>>)>> }

\* entries of the sequences and single-valued elements that merge_manifests
\* handles besides the projects, named after the manifest holding them
MergeAux(who) ==
    [remotes |-> <<[name |-> who, fetch |-> "https://" \o who \o ".example.com"]>>,
     submanifests |-> <<[name |-> who]>>,
     includes |-> <<[name |-> who \o ".xml", groups |-> None, revision |-> None]>>,
     copyfiles |-> <<[src |-> "f", dest |-> who]>>,
     linkfiles |-> <<[src |-> "g", dest |-> who]>>,
     annotations |-> <<[name |-> who, value |-> "v", keep |-> TRUE]>>,
     manifest_server |-> Some([url |-> who]),
     repo_hooks |-> Some([in_project |-> who, enabled_list |-> "pre-upload"]),
     superproject |-> Some([name |-> who, remote |-> None, revision |-> None]),
     contactinfo |-> Some([bugurl |-> who])]

WithAux(m, who) ==
    LET x == MergeAux(who)
    IN  [m EXCEPT !.remotes = @ \o x.remotes,
                  !.submanifests = x.submanifests,
                  !.includes = x.includes,
                  !.copyfiles = x.copyfiles,
                  !.linkfiles = x.linkfiles,
                  !.annotations = x.annotations,
                  !.manifest_server = x.manifest_server,
                  !.repo_hooks = x.repo_hooks,
                  !.superproject = x.superproject,
                  !.contactinfo = x.contactinfo]

PlainMergeBases ==
    { MkManifest(<<OriginRemote>>, Some(MkDefault(Some("origin"), Some("main"), None)), ps) :
        ps \in SeqsUpTo(MergeProjects, MaxBaseProjects) }

PlainMergeOverlays ==
    { [EmptyManifest EXCEPT !.remove_projects = rps, !.extend_projects = eps,
                            !.projects = ps] :
        rps \in SeqsUpTo(MergeRemoves, MaxRemoves),
        eps \in MergeExtendChoices,
        ps \in MergeOverlayProjectChoices }

MergeBases ==
    PlainMergeBases
    \cup {WithAux(b, "base") : b \in {m \in PlainMergeBases : Len(m.projects) <= 1}}

MergeOverlays ==
    PlainMergeOverlays
    \cup {WithAux(o, "local") :
             o \in {m \in PlainMergeOverlays : m.remove_projects = <<>>}}

InitMerge ==
    /\ SyncIdle
    /\ ResolveIdle
    /\ LoadIdle
    /\ OrderIdle
    /\ mBase \in MergeBases
    /\ mLocal \in MergeOverlays
    /\ mOut = None

\* merge_manifests(&mut base, local): what the removal loop leaves (line
\* 308) and the manifest the call leaves in base
MergeCall ==
    /\ mOut = None
    /\ mOut' = Some([after_removals |->
                         ApplyRemoves(mBase.projects, mLocal.remove_projects),
                     merged |-> merge_manifests(mBase, mLocal)])
    /\ UNCHANGED <<syncVars, resolveVars, loadVars, orderVars, mBase, mLocal>>

NextMerge == MergeCall

SpecMerge == InitMerge /\ [][NextMerge]_vars

(***************************************************************************)
(* Two overlays on one base.  load_and_merge_manifests merges the files of *)
(* the local-manifest directory one after the other in the order read_dir  *)
(* lists them, an order the platform does not fix: the harness computes    *)
(* the effective manifest for both orders.                                 *)
(***************************************************************************)
\* lines 235-246: the loop over the overlay files, each merged into what
\* the previous ones left
RECURSIVE MergeInOrder(_, _)
MergeInOrder(base, overlays) ==
    IF overlays = <<>> THEN base
    ELSE MergeInOrder(merge_manifests(base, Head(overlays)), Tail(overlays))

OrderProjects ==
    { MkProject("a", Some("a"), None, Some("main"), <<>>, <<>>),
      MkProject("a", Some("b"), None, Some("main"), <<>>, <<>>),
      MkProject("a", None, None, Some("main"), <<>>, <<>>),
      MkProject("b", None, None, Some("dev"), <<>>, <<>>) }

MkOverlay(remove_projects, extend_projects, projects) ==
    [EmptyManifest EXCEPT !.remove_projects = remove_projects,
                          !.extend_projects = extend_projects,
                          !.projects = projects]

OrderOverlays ==
    { MkOverlay(<<>>, <<>>, <<>>),
      MkOverlay(<<>>, <<MkExtendProject("a", Some("a"), Some("q"), Some("dev"))>>,
                <<MkProject("c", None, None, Some("main"), <<>>, <<>>)>>),
      MkOverlay(<<>>, <<MkExtendProject("a", Some("b"), None, Some("rel"))>>, <<>>),
      MkOverlay(<<MkRemoveProject(Some("b"), None, None)>>, <<>>,
                <<MkProject("b", None, None, Some("main"), <<>>, <<>>)>>),
      MkOverlay(<<MkRemoveProject(None, Some("q"), None)>>, <<>>, <<>>),
      MkOverlay(<<>>, <<MkExtendProject("a", None, None, Some("main"))>>, <<>>),
      MkOverlay(<<MkRemoveProject(Some("c"), None, None)>>, <<>>, <<>>),
      MkOverlay(<<>>, <<MkExtendProject("b", None, None, Some("rel"))>>, <<>>) }

OrderInputs ==
    [base : {MkManifest(<<OriginRemote>>,
                        Some(MkDefault(Some("origin"), Some("main"), None)), ps) :
                ps \in SeqsUpTo(OrderProjects, MaxBaseProjects)},
     first : OrderOverlays,
     second : OrderOverlays]

InitOrder ==
    /\ SyncIdle
    /\ ResolveIdle
    /\ MergeIdle
    /\ LoadIdle
    /\ oIn \in OrderInputs
    /\ oOut = None

\* the loop of load_and_merge_manifests when read_dir lists first before
\* second, and when it lists second before first
OrderCall ==
    /\ oOut = None
    /\ oOut' = Some([first_second |->
                         MergeInOrder(oIn.base, <<oIn.first, oIn.second>>),
                     second_first |->
                         MergeInOrder(oIn.base, <<oIn.second, oIn.first>>)])
    /\ UNCHANGED <<syncVars, resolveVars, mergeVars, loadVars, oIn>>

NextOrder == OrderCall

SpecOrder == InitOrder /\ [][NextOrder]_vars

(***************************************************************************)
(* The manifest parser (lib.rs).  A file is the sequence of the elements   *)
(* the reader reports; an element is a record of its tag and of its        *)
(* attributes, None for an attribute the element does not carry.           *)
(***************************************************************************)
MaxIncludeDepth == 4   \* nesting of parse_file calls the model follows
MaxElements == 3       \* elements of the top-level file

ParseOk(m) == [ok |-> TRUE, m |-> m, msg |-> ""]
ParseErr(m, msg) == [ok |-> FALSE, m |-> m, msg |-> msg]

RemoteSchemaMsg == "Missing required attributes in remote element"
ProjectSchemaMsg == "Missing required attribute 'name' in project element"
OpenFailedMsg == "No such file or directory"
RecursionExhaustedMsg == "include recursion exhausted the process"

\* lib.rs 311-340
parse_remote(m, e) ==
    LET name == UnwrapOr(e.name, "")
        fetch == UnwrapOr(e.fetch, "")
    IN  IF name = "" \/ fetch = ""
        THEN ParseErr(m, RemoteSchemaMsg)
        ELSE ParseOk([m EXCEPT !.remotes =
                         Append(@, [name |-> name, fetch |-> fetch])])

\* lib.rs 342-372
parse_default(m, e) ==
    ParseOk([m EXCEPT !.default = Some(MkDefault(e.remote, e.revision, e.sync_j))])

\* lib.rs 374-388
parse_manifest_server(m, e) ==
    IF IsSome(e.url)
    THEN ParseOk([m EXCEPT !.manifest_server = Some([url |-> Unwrap(e.url)])])
    ELSE ParseOk(m)

\* the value of the attribute the element carries under this key
AttrOf(e, key) == IF key \in DOMAIN e.others THEN Some(e.others[key]) ELSE None

\* lib.rs 469-485: the keys the attribute loop of parse_project matches,
\* each with the field it assigns
project_fields(e) ==
    [MkProject(UnwrapOr(e.name, ""), e.path, e.remote, e.revision, <<>>, <<>>)
        EXCEPT !.dest_branch = AttrOf(e, "dest-branch"),
               !.groups = AttrOf(e, "groups"),
               !.sync_c = AttrOf(e, "sync-c"),
               !.sync_s = AttrOf(e, "sync_s"),
               !.sync_tags = AttrOf(e, "sync-tags"),
               !.upstream = AttrOf(e, "upstream"),
               !.clone_depth = AttrOf(e, "clone-depth"),
               !.force_path = AttrOf(e, "force-path")]

\* lib.rs 450-491
parse_project_NoNameCheck(m, e) ==
    ParseOk([m EXCEPT !.projects = Append(@, project_fields(e))])

parse_project(m, e) ==
    IF UnwrapOr(e.name, "") = ""
    THEN ParseErr(m, ProjectSchemaMsg)
    ELSE ParseOk([m EXCEPT !.projects = Append(@, project_fields(e))])

parse_include_SkipsFile(docs, m, e, depth) ==
    ParseOk([m EXCEPT !.includes =
                Append(@, [name |-> UnwrapOr(e.name, ""), groups |-> None,
                           revision |-> None])])

RECURSIVE parse_file(_, _, _, _)
RECURSIVE parse_events(_, _, _, _)
RECURSIVE parse_element(_, _, _, _)
RECURSIVE parse_include(_, _, _, _)

parse_file_StopsAtBound(docs, file_path, m, depth) ==
    IF depth = 0 THEN ParseOk(m)
    ELSE IF file_path \notin DOMAIN docs THEN ParseErr(m, OpenFailedMsg)
    ELSE parse_events(docs, docs[file_path], m, depth)

\* lib.rs 256-277: open the file, hand every element to parse_element.
\* The code nests these calls without limit, each holding its file open;
\* the model follows MaxIncludeDepth of them and takes a deeper nesting to
\* be one that never ends: the process runs out of stack or of file
\* descriptors, and no manifest comes back either way.
parse_file(docs, file_path, m, depth) ==
    IF depth = 0 THEN ParseErr(m, RecursionExhaustedMsg)
    ELSE IF file_path \notin DOMAIN docs THEN ParseErr(m, OpenFailedMsg)
    ELSE parse_events(docs, docs[file_path], m, depth)

parse_events(docs, events, m, depth) ==
    IF events = <<>> THEN ParseOk(m)
    ELSE LET r == parse_element(docs, m, Head(events), depth)
         IN  IF r.ok THEN parse_events(docs, Tail(events), r.m, depth) ELSE r

\* lib.rs 279-309
parse_element(docs, m, e, depth) ==
    CASE e.tag = "remote" -> parse_remote(m, e)
      [] e.tag = "default" -> parse_default(m, e)
      [] e.tag = "manifest-server" -> parse_manifest_server(m, e)
      [] e.tag = "project" -> parse_project(m, e)
      [] e.tag = "include" -> parse_include(docs, m, e, depth)
      [] OTHER -> ParseOk(m)

\* lib.rs 587-619: record the include, parse the named file of the same
\* directory into this manifest; a failure is passed on unless the name is
\* empty
parse_include(docs, m, e, depth) ==
    LET name == UnwrapOr(e.name, "")
        include == [name |-> name, groups |-> None, revision |-> None]
        r == parse_file(docs, name, [m EXCEPT !.includes = Append(@, include)],
                        depth - 1)
    IN  IF ~r.ok /\ name # "" THEN r ELSE ParseOk(r.m)

\* lib.rs 214-254
from_file_AlwaysSynthesizes(docs, file_path, default_remote, default_revision) ==
    LET r == parse_file(docs, file_path, EmptyManifest, MaxIncludeDepth)
    IN  IF ~r.ok THEN [ok |-> FALSE, m |-> EmptyManifest, msg |-> r.msg]
        ELSE ParseOk([r.m EXCEPT !.default =
                         Some(MkDefault(default_remote, default_revision, None))])

from_file(docs, file_path, default_remote, default_revision) ==
    LET r == parse_file(docs, file_path, EmptyManifest, MaxIncludeDepth)
    IN  IF ~r.ok THEN [ok |-> FALSE, m |-> EmptyManifest, msg |-> r.msg]
        ELSE IF IsNone(r.m.default)
        THEN ParseOk([r.m EXCEPT !.default =
                         Some(MkDefault(default_remote, default_revision, None))])
        ELSE ParseOk(r.m)

\* sync.rs 232-246: every local manifest, in the order read_dir lists them
RECURSIVE MergeLocals(_, _, _)
MergeLocals(docs, m, locals) ==
    IF locals = <<>> THEN ParseOk(m)
    ELSE LET l == from_file(docs, Head(locals), Some("origin"), Some("main"))
         IN  IF ~l.ok THEN l
             ELSE MergeLocals(docs, merge_manifests(m, l.m), Tail(locals))

\* sync.rs 220-249
load_and_merge_manifests(docs, manifest_path, locals) ==
    LET b == from_file(docs, manifest_path, Some("origin"), Some("main"))
    IN  IF ~b.ok THEN b ELSE MergeLocals(docs, b.m, locals)

(***************************************************************************)
(* The loader on its own: from_file and load_and_merge_manifests are each  *)
(* applied once to a bounded set of files.                                 *)
(***************************************************************************)
RemoteEl(name, fetch) == [tag |-> "remote", name |-> name, fetch |-> fetch]
DefaultEl(remote, revision, sync_j) ==
    [tag |-> "default", remote |-> remote, revision |-> revision, sync_j |-> sync_j]
\* a project element: name, path, remote and revision, and in others the
\* rest of its attributes, each under the key the document writes
ProjectElWith(name, path, remote, revision, others) ==
    [tag |-> "project", name |-> name, path |-> path, remote |-> remote,
     revision |-> revision, others |-> others]
ProjectEl(name) == ProjectElWith(name, None, None, None, <<>>)

\* the attributes of a project element other than the four above, by the
\* names the manifest format gives them
OtherProjectAttributes ==
    {"dest-branch", "groups", "sync-c", "sync-s", "sync-tags", "upstream",
     "clone-depth", "force-path"}

\* a project element carrying every attribute of the format
FullProjectEl ==
    ProjectElWith(Some("a"), Some("a"), Some("origin"), Some("dev"),
                  [k \in OtherProjectAttributes |-> "v-" \o k])
IncludeEl(name) == [tag |-> "include", name |-> name]
ServerEl(url) == [tag |-> "manifest-server", url |-> url]

MainElements ==
    { RemoteEl(Some("origin"), Some("https://example.com")),
      RemoteEl(None, Some("https://example.com")),
      RemoteEl(Some("origin"), Some("")),
      DefaultEl(Some("mirror"), Some("dev"), Some(<<"8">>)),
      DefaultEl(None, None, None),
      ProjectEl(Some("a")),
      ProjectEl(None),
      FullProjectEl,
      IncludeEl(Some("c.xml")),
      IncludeEl(Some("")),
      IncludeEl(Some("m.xml")),
      ServerEl(Some("main")) }

\* c.xml, next to the top-level file; <<>> in first place: no such file
ChildChoices ==
    { <<FALSE, <<>>>>,
      <<TRUE, <<ProjectEl(Some("b"))>>>>,
      <<TRUE, <<IncludeEl(Some("g.xml")), ProjectEl(Some("b"))>>>>,
      <<TRUE, <<DefaultEl(Some("origin"), Some("rel"), None)>>>>,
      <<TRUE, <<RemoteEl(Some(""), Some("https://example.com"))>>>>,
      <<TRUE, <<ProjectEl(Some("b")), ProjectEl(Some(""))>>>>,
      <<TRUE, <<ProjectEl(Some("b")), IncludeEl(Some("m.xml"))>>>> }

GrandchildFile == <<ProjectEl(Some("g"))>>

\* l.xml, the one file of the local manifests directory, when there is one
LocalChoices ==
    { <<FALSE, <<>>>>,
      <<TRUE, <<ProjectEl(Some("c"))>>>>,
      <<TRUE, <<DefaultEl(Some("local"), None, None)>>>>,
      <<TRUE, <<ServerEl(Some("local")), ProjectEl(Some("c"))>>>> }

FallbackChoices == {<<Some("origin"), Some("main")>>, <<None, None>>}

MkDocs(main, child, local) ==
    ("m.xml" :> main) @@ ("g.xml" :> GrandchildFile)
    @@ (IF child[1] THEN ("c.xml" :> child[2]) ELSE <<>>)
    @@ (IF local[1] THEN ("l.xml" :> local[2]) ELSE <<>>)

\* the included file and the rest are varied one at a time
LoadInputs ==
    { [docs |-> MkDocs(main, c[1], c[2]),
       locals |-> IF c[2][1] THEN <<"l.xml">> ELSE <<>>,
       default_remote |-> c[3][1],
       default_revision |-> c[3][2]] :
        main \in SeqsUpTo(MainElements, MaxElements),
        c \in {x \in ChildChoices \X LocalChoices \X FallbackChoices :
                  \/ (~x[2][1] /\ x[3] = <<Some("origin"), Some("main")>>)
                  \/ x[1] = <<TRUE, <<ProjectEl(Some("b"))>>>>} }

InitLoad ==
    /\ SyncIdle
    /\ ResolveIdle
    /\ MergeIdle
    /\ OrderIdle
    /\ lIn \in LoadInputs
    /\ lOut = None
    /\ lmOut = None

\* Manifest::from_file on the top-level file
FromFileCall ==
    /\ lOut = None
    /\ lOut' = Some(from_file(lIn.docs, "m.xml", lIn.default_remote,
                              lIn.default_revision))
    /\ UNCHANGED <<syncVars, resolveVars, mergeVars, orderVars, lIn, lmOut>>

\* load_and_merge_manifests on the top-level file
LoadAndMergeCall ==
    /\ lmOut = None
    /\ lmOut' = Some(load_and_merge_manifests(lIn.docs, "m.xml", lIn.locals))
    /\ UNCHANGED <<syncVars, resolveVars, mergeVars, orderVars, lIn, lOut>>

NextLoad == FromFileCall \/ LoadAndMergeCall

SpecLoad == InitLoad /\ [][NextLoad]_vars

(***************************************************************************)
(* Properties of the sync scheduler, checked under Spec.                   *)
(***************************************************************************)
Failed(i) == unit[i] = "failed"
SomeUnitFailed == \E i \in Units : Failed(i)
Returned == mainPc = "done"
PastJoin == mainPc \in {"handle_errors", "materialize"}

C2_KeepReturnsSuccess ==
    (Returned /\ options.keep /\ SomeUnitFailed) =>
        ~(/\ result.status = "err"
          /\ result.msg = "Source does not exist"
          /\ matIdx[1] \in Units
          /\ Failed(matIdx[1]))

\* C3, as stated: whatever keep is, every selected project's unit has
\* executed its body once the pool is joined.
Executed(i) == unit[i] \in {"ok", "failed"}
C4_JoinBarrier ==
    PastJoin =>
        /\ queue = <<>>
        /\ Running = {}
        /\ \A i \in Units : unit[i] \in FinishedPcs \cup {"new"}

C4_Witness ==
    /\ mainPc = "materialize"
    /\ matIdx = <<1, 2>>
    /\ jobs > 1
    /\ errors # <<>>
    /\ \A i \in Units : unit[i] \in FinishedPcs

\* C5: at every moment at most W = min(max(1, requestedJobs), 4) units
\* execute, where requestedJobs is options.jobs if set, else
\* manifest.default.sync_j parsed as an unsigned integer (1 when it does not
\* parse), else 1; the pool has exactly W threads.
RequestedJobs ==
    IF options.jobs # None THEN options.jobs[1]
    ELSE IF manifest.default # None /\ manifest.default[1].sync_j # None
    THEN (IF ParseUsize(manifest.default[1].sync_j[1]) # None
          THEN ParseUsize(manifest.default[1].sync_j[1])[1] ELSE 1)
    ELSE 1
WorkerBound == Min(Max(1, RequestedJobs), 4)

C5_WorkerBound ==
    /\ Cardinality(Running) <= WorkerBound
    /\ mainPc \in {"submit", "execute", "join", "handle_errors", "materialize"} =>
           jobs = WorkerBound
    /\ (mainPc = "submit" /\ options.jobs = None
        /\ manifest.default[1].sync_j = Some(<<"8">>)) => jobs = 4
    /\ (mainPc = "submit" /\ options.jobs = Some(0)) => jobs = 1
    /\ (mainPc = "submit" /\ options.jobs # None) =>
           jobs = Min(Max(1, options.jobs[1]), 4)

C5_Witness ==
    /\ options.jobs = Some(0)
    /\ manifest.default[1].sync_j = Some(<<"8">>)
    /\ Cardinality(Running) = 1
    /\ queue # <<>>

\* C6: a project whose directory exists when its unit starts takes the
\* update path: no directory is created, no init and no remote add is issued
\* for it; init is issued only for a project whose directory was absent.
C6_ExistingDirectoryUpdates ==
    \A i \in Units :
        seenAtStart[i] =>
            /\ unit[i] \notin ClonePcs
            /\ Range(cmds[i]) \cap {"mkdir", "init", "remote_add"} = {}
            /\ cmds[i] # <<>> => cmds[i][1] = "ufetch"
            /\ IsDir(fs, UnitPath(i))

C6_Witness ==
    /\ run = 2
    /\ \E i \in Units :
           /\ seenAtStart[i]
           /\ unit[i] = "ok"
           /\ cmds[i] = <<"ufetch", "reset">>
           /\ prevFail[i] = "none"

\* C7: if the previous attempt of a project failed at a step of the clone
\* path, a later run with a backend free of transient failures ends with the
\* project as a working checkout at its resolved revision.
WorkingCheckout(i) ==
    /\ IsDir(fs, UnitPath(i))
    /\ repo[UnitPath(i)].git
    /\ repo[UnitPath(i)].head = UnitResolved(i).revision

C7_RetryIsSafe ==
    \A i \in Units :
        (/\ Returned /\ run > 1 /\ healthy
         /\ prevFail[i] \in ClonePcs
         /\ Executed(i)) => WorkingCheckout(i)

(***************************************************************************)
(* Properties of the resolver, checked under SpecResolve.                  *)
(***************************************************************************)
\* the remote name the claim gives: project.remote, else the default's
\* remote, else "origin"
ClaimedRemoteName ==
    IF rIn.project.remote # None THEN rIn.project.remote[1]
    ELSE IF rIn.manifest.default # None /\ rIn.manifest.default[1].remote # None
    THEN rIn.manifest.default[1].remote[1]
    ELSE "origin"

ClaimedRemotes ==
    {k \in 1..Len(rIn.manifest.remotes) :
        rIn.manifest.remotes[k].name = ClaimedRemoteName}

BothRevisionsAbsent ==
    /\ rIn.project.revision = None
    /\ rIn.manifest.default = None \/ rIn.manifest.default[1].revision = None

\* C8: the remote used is project.remote if present, else
\* manifest.default.remote if present, else "origin"; resolution fails with
\* RemoteNotFound exactly when no remote of the manifest has that name, and
\* otherwise the clone URL is {remote.fetch}/{project.name}.git (of the first
\* remote of that name).
C8_RemoteResolution ==
    rOut # None =>
        LET r == rOut[1]
        IN  /\ (~r.ok /\ r.kind = "RemoteNotFound") <=> (ClaimedRemotes = {})
            /\ r.ok =>
                 /\ r.remote_name = ClaimedRemoteName
                 /\ \E k \in ClaimedRemotes :
                       /\ \A j \in ClaimedRemotes : k <= j
                       /\ r.repo_url = rIn.manifest.remotes[k].fetch \o "/"
                                          \o rIn.project.name \o ".git"

C8_Witness ==
    /\ rOut # None
    /\ rIn.project.remote = None
    /\ rIn.project.name = "a/b"
    /\ rIn.manifest.default # None
    /\ rIn.manifest.default[1].remote = Some("mirror")
    /\ Len(rIn.manifest.remotes) = 2
    /\ rOut[1].ok
    /\ rOut[1].repo_url = "https://mirror.example.com/a/b.git"

\* C9 as stated: the resolved revision is project.revision if present, else
\* manifest.default.revision if present; resolution fails with
\* RevisionUnresolved exactly when both are absent, for every project and
\* manifest.
C9_UnresolvedExactlyWhenAbsent ==
    rOut # None =>
        LET r == rOut[1]
        IN  /\ (~r.ok /\ r.kind = "RevisionUnresolved") <=> BothRevisionsAbsent
            /\ r.ok =>
                 r.revision = IF rIn.project.revision # None
                              THEN rIn.project.revision[1]
                              ELSE rIn.manifest.default[1].revision[1]

\* C9 as the code has it: the remote is resolved first, so the project fails
\* with RevisionUnresolved exactly when both revisions are absent and its
\* remote is found (a missing remote is the failure recorded otherwise);
\* with both absent the project never resolves, and a resolved revision is
\* project.revision if present, else manifest.default.revision.
C9_RevisionResolution ==
    rOut # None =>
        LET r == rOut[1]
        IN  /\ (~r.ok /\ r.kind = "RevisionUnresolved")
                 <=> (BothRevisionsAbsent /\ ClaimedRemotes # {})
            /\ BothRevisionsAbsent => ~r.ok
            /\ (BothRevisionsAbsent /\ ClaimedRemotes = {}) =>
                   r.kind = "RemoteNotFound"
            /\ r.ok =>
                 r.revision = IF rIn.project.revision # None
                              THEN rIn.project.revision[1]
                              ELSE rIn.manifest.default[1].revision[1]

C9_Witness ==
    /\ rOut # None
    /\ rIn.project.revision = Some("dev")
    /\ rIn.manifest.default # None
    /\ rIn.manifest.default[1].revision = Some("main")
    /\ rOut[1].ok
    /\ rOut[1].revision = "dev"

(***************************************************************************)
(* Properties of the merge, checked under SpecMerge.                       *)
(***************************************************************************)
\* the directive removes the project: it matches and, if it carries
\* base-rev, the project's revision equals it
GuardedRemoval(p, d) ==
    should_remove(p, d) /\ (d.base_rev = None \/ p.revision = d.base_rev)

RemovedByOverlay(p) ==
    \E k \in 1..Len(mLocal.remove_projects) :
        GuardedRemoval(p, mLocal.remove_projects[k])

\* C10: a remove-project carrying base-rev=X removes a matching base project
\* if and only if the project's revision equals X; a matching project whose
\* revision differs or is absent is retained unchanged.
C10_BaseRevGuardsRemoval ==
    mOut # None =>
        LET kept == mOut[1].after_removals
            merged == mOut[1].merged.projects
        IN  /\ kept = SelectSeq(mBase.projects, LAMBDA p : ~RemovedByOverlay(p))
            /\ \A k \in 1..Len(mLocal.remove_projects) :
               \A j \in 1..Len(mBase.projects) :
                  LET d == mLocal.remove_projects[k]
                      p == mBase.projects[j]
                  IN  (d.base_rev # None /\ should_remove(p, d)) =>
                        /\ p.revision = d.base_rev => p \notin Range(kept)
                        /\ (p.revision # d.base_rev
                            /\ Len(mLocal.remove_projects) = 1) =>
                               p \in Range(kept)
            /\ mLocal.extend_projects = <<>> =>
                   merged = kept \o mLocal.projects

C10_Witness ==
    /\ mOut # None
    /\ mLocal.remove_projects = <<MkRemoveProject(Some("a"), None, Some("main"))>>
    /\ mLocal.extend_projects = <<>>
    /\ mLocal.projects = <<>>
    /\ Len(mBase.projects) = 2
    /\ mBase.projects[1].revision = Some("main")
    /\ mBase.projects[2].name = "a"
    /\ mBase.projects[2].revision = Some("dev")
    /\ mOut[1].merged.projects = <<mBase.projects[2]>>

\* a project's path: its path attribute, or its name when that is absent
EffectivePath(p) == IF p.path # None THEN p.path[1] ELSE p.name

\* the directive matches the project, the path compared being EffectivePath
MatchesOnEffectivePath(p, d) ==
    IF d.name # None
    THEN p.name = d.name[1] /\ (d.path # None => EffectivePath(p) = d.path[1])
    ELSE d.path # None /\ EffectivePath(p) = d.path[1]

NoBaseRev == \A k \in 1..Len(mLocal.remove_projects) :
                 mLocal.remove_projects[k].base_rev = None

\* C11: the remove-project directives of an overlay (none carrying base-rev)
\* remove from the base every project that matches one of them and no
\* other; a project matches by name (narrowed by path when the directive
\* gives one) or by path alone, its path being the path attribute or, when
\* absent, its name; a directive with neither removes nothing.
C11_RemovesExactlyMatching ==
    (mOut # None /\ NoBaseRev) =>
        mOut[1].after_removals =
            SelectSeq(mBase.projects,
                      LAMBDA p : ~\E k \in 1..Len(mLocal.remove_projects) :
                                     MatchesOnEffectivePath(p, mLocal.remove_projects[k]))

\* the project an extend-project directive leaves: written field by field
ExtendedBy(p, e) ==
    IF p.name = e.name /\ (e.path = None \/ p.path = e.path)
    THEN [name |-> p.name,
          path |-> IF e.dest_path # None THEN e.dest_path ELSE p.path,
          groups |-> IF e.groups # None THEN e.groups ELSE p.groups,
          revision |-> IF e.revision # None THEN e.revision ELSE p.revision,
          remote |-> IF e.remote # None THEN e.remote ELSE p.remote,
          dest_branch |-> IF e.dest_branch # None THEN e.dest_branch
                          ELSE p.dest_branch,
          upstream |-> IF e.upstream # None THEN e.upstream ELSE p.upstream,
          sync_c |-> p.sync_c, sync_s |-> p.sync_s, sync_tags |-> p.sync_tags,
          clone_depth |-> p.clone_depth, force_path |-> p.force_path,
          copyfiles |-> p.copyfiles,
          linkfiles |-> p.linkfiles]
    ELSE p

RECURSIVE ExtendedByAll(_, _)
ExtendedByAll(p, es) ==
    IF es = <<>> THEN p ELSE ExtendedByAll(ExtendedBy(p, Head(es)), Tail(es))

C13_AdditiveMerge ==
    mOut # None =>
        LET m == mOut[1].merged
            kept == mOut[1].after_removals
        IN  /\ m.remotes = mBase.remotes \o mLocal.remotes
            /\ m.submanifests = mBase.submanifests \o mLocal.submanifests
            /\ m.remove_projects = mBase.remove_projects \o mLocal.remove_projects
            /\ m.projects = [j \in 1..Len(kept) |->
                                ExtendedByAll(kept[j], mLocal.extend_projects)]
                            \o mLocal.projects
            /\ m.extend_projects = mBase.extend_projects \o mLocal.extend_projects
            /\ m.includes = mBase.includes \o mLocal.includes
            /\ m.copyfiles = mBase.copyfiles \o mLocal.copyfiles
            /\ m.linkfiles = mBase.linkfiles \o mLocal.linkfiles
            /\ m.annotations = mBase.annotations \o mLocal.annotations

NoDuplicates(ps) ==
    \A j, k \in 1..Len(ps) :
        (j # k) => <<ps[j].name, ps[j].path>> # <<ps[k].name, ps[k].path>>

\* C15: after a merge of an overlay into a base, neither of which lists a
\* (name, path) pair twice, the effective project list contains no two
\* projects sharing the same (name, path) pair.
C15_NoDuplicateProjects ==
    (mOut # None /\ NoDuplicates(mBase.projects) /\ NoDuplicates(mLocal.projects))
        => NoDuplicates(mOut[1].merged.projects)

(***************************************************************************)
(* Properties of the loader, checked under SpecLoad.                       *)
(***************************************************************************)
\* the elements of a file, each include of a non-empty name that names an
\* existing file being followed by the elements of that file
RECURSIVE LoadedTo(_, _, _)
LoadedTo(docs, events, depth) ==
    IF events = <<>> THEN <<>>
    ELSE LET e == Head(events)
             inner == IF /\ e.tag = "include"
                         /\ e.name # None
                         /\ e.name[1] # ""
                         /\ e.name[1] \in DOMAIN docs
                         /\ depth > 1
                      THEN LoadedTo(docs, docs[e.name[1]], depth - 1)
                      ELSE <<>>
         IN  <<e>> \o inner \o LoadedTo(docs, Tail(events), depth)

\* followed as deep as the model follows the loader
Loaded(docs, events) == LoadedTo(docs, events, MaxIncludeDepth)

LoadedMain == Loaded(lIn.docs, lIn.docs["m.xml"])
ElementsOf(events, tag) == SelectSeq(events, LAMBDA e : e.tag = tag)
IsBlank(a) == a = None \/ a[1] = ""
LacksRequired(e) ==
    \/ e.tag = "remote" /\ (IsBlank(e.name) \/ IsBlank(e.fetch))
    \/ e.tag = "project" /\ IsBlank(e.name)
SchemaViolation ==
    LET es == LoadedMain
    IN  \E k \in 1..Len(es) : LacksRequired(es[k])

\* C14: after load_and_merge_manifests with one overlay file, default and
\* manifest_server of the effective manifest are the overlay's when the
\* overlay document has that element, and otherwise the base's; a base with
\* a <default> merged with an overlay file without one keeps the base's
\* default.
C14_OverrideMerge ==
    (lmOut # None /\ lmOut[1].ok /\ lIn.locals # <<>>) =>
        LET base == from_file(lIn.docs, "m.xml", Some("origin"), Some("main")).m
            overlay == lIn.docs["l.xml"]
            defaults == ElementsOf(overlay, "default")
            servers == ElementsOf(overlay, "manifest-server")
            m == lmOut[1].m
        IN  /\ m.default =
                  IF defaults # <<>>
                  THEN LET d == defaults[Len(defaults)]
                       IN  Some(MkDefault(d.remote, d.revision, d.sync_j))
                  ELSE base.default
            /\ m.manifest_server =
                  IF servers # <<>>
                  THEN Some([url |-> servers[Len(servers)].url[1]])
                  ELSE base.manifest_server

\* C18: a successful load yields the elements of the top-level file and of
\* every file it includes, transitively: the projects are those of all the
\* loaded files, an included file's projects standing at the place of its
\* include, and every include is recorded once in includes.
C18_IncludeSplices ==
    (lOut # None /\ lOut[1].ok) =>
        LET m == lOut[1].m
            ps == ElementsOf(LoadedMain, "project")
            is == ElementsOf(LoadedMain, "include")
        IN  /\ Len(m.projects) = Len(ps)
            /\ \A k \in 1..Len(ps) : m.projects[k].name = ps[k].name[1]
            /\ Len(m.includes) = Len(is)
            /\ \A k \in 1..Len(is) : m.includes[k].name = is[k].name[1]

C18_Witness ==
    /\ lOut # None
    /\ lOut[1].ok
    /\ lIn.docs["m.xml"] = <<ProjectEl(Some("a")), IncludeEl(Some("c.xml")),
                             ProjectEl(Some("a"))>>
    /\ "c.xml" \in DOMAIN lIn.docs
    /\ lIn.docs["c.xml"] = <<IncludeEl(Some("g.xml")), ProjectEl(Some("b"))>>
    /\ Len(lOut[1].m.projects) = 4
    /\ lOut[1].m.projects[2].name = "g"
    /\ lOut[1].m.projects[3].name = "b"
    /\ Len(lOut[1].m.includes) = 2

\* C19: load fails whenever a remote element of the top-level file or of a
\* file included under a non-empty name lacks name or fetch, or a project
\* element lacks name (missing or empty); when every remote and project
\* element has them, load does not fail with the schema error.
C19_SchemaErrors ==
    lOut # None =>
        /\ SchemaViolation => ~lOut[1].ok
        /\ ~SchemaViolation =>
              ~(~lOut[1].ok /\ lOut[1].msg \in {RemoteSchemaMsg, ProjectSchemaMsg})

C19_Witness ==
    /\ lOut # None
    /\ ~lOut[1].ok
    /\ lOut[1].msg = ProjectSchemaMsg
    /\ lIn.docs["m.xml"] = <<ProjectEl(Some("a")), IncludeEl(Some("c.xml"))>>
    /\ "c.xml" \in DOMAIN lIn.docs
    /\ lIn.docs["c.xml"] = <<ProjectEl(Some("b")), ProjectEl(Some(""))>>

\* C20: after a successful load the default is present: the last default
\* element parsed, included files counted, when there is one; otherwise a
\* default whose remote and revision are the caller's fallbacks and whose
\* other fields are absent.
C20_DefaultPresent ==
    (lOut # None /\ lOut[1].ok) =>
        LET ds == ElementsOf(LoadedMain, "default")
            d == lOut[1].m.default
        IN  /\ d # None
            /\ d = IF ds # <<>>
                   THEN Some(MkDefault(ds[Len(ds)].remote, ds[Len(ds)].revision,
                                       ds[Len(ds)].sync_j))
                   ELSE Some([remote |-> lIn.default_remote,
                              revision |-> lIn.default_revision,
                              dest_branch |-> None, upstream |-> None,
                              sync_j |-> None, sync_c |-> None,
                              sync_s |-> None, sync_tags |-> None])

C20_Witness ==
    /\ lOut # None
    /\ lOut[1].ok
    /\ lIn.docs["m.xml"] = <<DefaultEl(None, None, None), IncludeEl(Some("c.xml"))>>
    /\ "c.xml" \in DOMAIN lIn.docs
    /\ lIn.docs["c.xml"] = <<DefaultEl(Some("origin"), Some("rel"), None)>>
    /\ lOut[1].m.default[1].revision = Some("rel")

(***************************************************************************)
(* Properties of the materialization step, checked under Spec.             *)
(***************************************************************************)
AtDirective == NextDirective(matIdx[1], matIdx[2])
DirectivePending ==
    mainPc = "materialize" /\ AtDirective[1] <= Len(ProjectsToSync)
PendingDirective == Directives(AtDirective[1])[AtDirective[2]]
PendingSrc == PathJoin(UnitPath(AtDirective[1]), PendingDirective.src)
PendingDest == PathJoin(TargetRoot, PendingDirective.dest)
ResolvesOutside ==
    \/ ~StartsWith(Resolve(PendingSrc), TargetRoot)
    \/ ~StartsWith(Resolve(PendingDest), TargetRoot)

\* C16: a copy or link directive whose resolved src or dest lies outside
\* targetRoot (through a ".." segment or an absolute dest) is rejected, sync
\* returning an error, and changes nothing on the filesystem: no directory
\* is created, no file copied, no link made.  (Which error it is rejected
\* with is left aside: the containment check comes first in the code.)
C16_OutsideIsRejected ==
    [][(DirectivePending /\ ResolvesOutside) =>
          (/\ fs' = fs
           /\ mainPc' = "done"
           /\ result'.status = "err")]_vars

\* C17: with keep=false the first failing directive ends materialization
\* and sync returns its error; with keep=true a failing directive is only
\* logged, the remaining directives are attempted and sync does not fail
\* because of it.
C17_KeepGatedMaterialization ==
    [][DirectivePending =>
          IF options.keep
          THEN /\ mainPc' = "materialize"
               /\ matIdx' = <<AtDirective[1], AtDirective[2] + 1>>
          ELSE \/ /\ mainPc' = "materialize"
                  /\ matIdx' = <<AtDirective[1], AtDirective[2] + 1>>
               \/ /\ mainPc' = "done"
                  /\ result'.status = "err"]_vars

(***************************************************************************)
(* The order of the directives inside one merge, checked under SpecMerge.  *)
(***************************************************************************)
\* the base projects no remove-project of the overlay removes, with the
\* values they have before any extend-project is applied
Survivors == SelectSeq(mBase.projects, LAMBDA p : ~RemovedByOverlay(p))

\* C25: within one merge the remove-project directives are applied before
\* the extend-project directives and both act only on the base's projects:
\* a removed project is never extended, a remove-project is matched against
\* the project's values before extension, and the projects the overlay adds
\* are neither removed nor extended by the overlay's own directives.
C25_RemovesThenExtendsOnBase ==
    mOut # None =>
        LET merged == mOut[1].merged.projects
            added == mLocal.projects
        IN  /\ Len(merged) = Len(Survivors) + Len(added)
            /\ \A j \in 1..Len(Survivors) :
                  merged[j] = ExtendedByAll(Survivors[j], mLocal.extend_projects)
            /\ SubSeq(merged, Len(Survivors) + 1, Len(merged)) = added

\* the base's a@dev survives remove a base-rev=main and is then extended to
\* main; the overlay's own a@main, which both directives match, is untouched
C25_Witness ==
    /\ mOut # None
    /\ mBase.projects = <<MkProject("a", None, None, Some("dev"), <<>>, <<>>)>>
    /\ mLocal.remove_projects = <<MkRemoveProject(Some("a"), None, Some("main"))>>
    /\ mLocal.extend_projects = <<MkExtendProject("a", None, None, Some("main"))>>
    /\ mLocal.projects = <<MkProject("a", None, None, Some("main"), <<>>, <<>>)>>
    /\ mOut[1].merged.projects =
          <<MkProject("a", None, None, Some("main"), <<>>, <<>>),
            MkProject("a", None, None, Some("main"), <<>>, <<>>)>>

(***************************************************************************)
(* Properties of two overlays on one base, checked under SpecOrder.        *)
(***************************************************************************)
\* a remove-project or an extend-project selects the project: base-rev,
\* which only decides whether a selected project is dropped, left aside
RemoveSelects(p, d) ==
    IF d.name # None
    THEN p.name = d.name[1] /\ (d.path # None => p.path = d.path)
    ELSE d.path # None /\ p.path = d.path
ExtendSelects(p, e) == p.name = e.name /\ (e.path = None \/ p.path = e.path)

\* the values a project can take while the two overlays are applied
Versions(p) ==
    LET e1 == oIn.first.extend_projects
        e2 == oIn.second.extend_projects
    IN  {p, ExtendedByAll(p, e1), ExtendedByAll(p, e2),
         ExtendedByAll(ExtendedByAll(p, e1), e2),
         ExtendedByAll(ExtendedByAll(p, e2), e1)}

\* the overlay has a directive that selects the project at some point
Targets(o, p) ==
    \E v \in Versions(p) :
        \/ \E k \in 1..Len(o.remove_projects) : RemoveSelects(v, o.remove_projects[k])
        \/ \E k \in 1..Len(o.extend_projects) : ExtendSelects(v, o.extend_projects[k])

\* the directives of each overlay target only projects that the other
\* overlay neither targets nor adds
IndependentOverlays ==
    /\ \A p \in Range(oIn.base.projects) :
          ~(Targets(oIn.first, p) /\ Targets(oIn.second, p))
    /\ \A p \in Range(oIn.second.projects) : ~Targets(oIn.first, p)
    /\ \A p \in Range(oIn.first.projects) : ~Targets(oIn.second, p)

ProjectField(p, key) ==
    CASE key = "dest-branch" -> p.dest_branch
      [] key = "groups" -> p.groups
      [] key = "sync-c" -> p.sync_c
      [] key = "sync-s" -> p.sync_s
      [] key = "sync-tags" -> p.sync_tags
      [] key = "upstream" -> p.upstream
      [] key = "clone-depth" -> p.clone_depth
      [] key = "force-path" -> p.force_path

\* C22: a successful load stores every attribute of a project element
\* verbatim in the field of that name (name, path, remote, revision,
\* dest-branch, groups, sync-c, sync-s, sync-tags, upstream, clone-depth,
\* force-path): an attribute present in the document is never left absent
\* in the loaded project.
C22_ProjectAttributesStored ==
    (lOut # None /\ lOut[1].ok) =>
        LET es == ElementsOf(LoadedMain, "project")
            ps == lOut[1].m.projects
        IN  /\ Len(ps) = Len(es)
            /\ \A j \in 1..Len(es) :
                  /\ ps[j].name = es[j].name[1]
                  /\ ps[j].path = es[j].path
                  /\ ps[j].remote = es[j].remote
                  /\ ps[j].revision = es[j].revision
                  /\ \A key \in OtherProjectAttributes :
                        ProjectField(ps[j], key) = AttrOf(es[j], key)

(***************************************************************************)
(* Include cycles, checked under SpecLoad.                                 *)
(***************************************************************************)
\* the files an include element of this file names, when they exist
IncludedBy(docs, f) ==
    {docs[f][k].name[1] : k \in {i \in 1..Len(docs[f]) :
                                    /\ docs[f][i].tag = "include"
                                    /\ docs[f][i].name # None
                                    /\ docs[f][i].name[1] \in DOMAIN docs}}

RECURSIVE ReachableIn(_, _, _)
ReachableIn(docs, files, n) ==
    IF n = 0 THEN files
    ELSE ReachableIn(docs, files \cup UNION {IncludedBy(docs, f) : f \in files},
                     n - 1)

\* the files reached from f through one include or more
IncludesOf(docs, f) ==
    ReachableIn(docs, IncludedBy(docs, f), Cardinality(DOMAIN docs))

\* the include graph of the top-level file contains a cycle
IncludeCycle ==
    \E f \in {"m.xml"} \cup IncludesOf(lIn.docs, "m.xml") :
        f \in IncludesOf(lIn.docs, f)

GitIssued(i) ==
    LET cs == SelectSeq(cmds[i], LAMBDA c : c # "mkdir")
        r == UnitResolved(i)
    IN  [k \in 1..Len(cs) |-> GitArgs(cs[k], r.repo_url, r.revision)]

IsPrefix(s, t) == Len(s) <= Len(t) /\ s = SubSeq(t, 1, Len(s))

ClonePathCommands(url, rev) ==
    << <<"init">>,
       <<"remote", "add", "origin", url>>,
       <<"fetch", "--depth", "1", "origin", rev>>,
       <<"checkout", "FETCH_HEAD">> >>
UpdatePathCommands(rev) ==
    << <<"fetch", "origin", "--prune", "--depth", "1", rev>>,
       <<"reset", "--hard", "FETCH_HEAD">> >>
DetachCommands(rev) == IF options.detach THEN << <<"checkout", rev>> >> ELSE <<>>

FlagTripped == ~options.keep /\ stop_flag
InProgress(i) == unit[i] \in BodyPcs \cup {"push", "flag"}

\* what C26 says of a unit: one that begins with the flag tripped is
\* skipped, issuing no command, creating no directory and recording no
\* failure; one in progress is never skipped
UnitsHonourFlag ==
    \A i \in Units :
        /\ (FlagTripped /\ unit[i] = "begin" /\ unit'[i] # "begin") =>
              /\ unit'[i] = "skipped"
              /\ cmds'[i] = <<>>
              /\ fs' = fs
              /\ errors' = errors
              /\ pendingErr'[i] = NoError
        /\ InProgress(i) => unit'[i] # "skipped"
        /\ unit[i] = "skipped" => (unit'[i] = "skipped" \/ run' # run)
        /\ options.keep => unit'[i] # "skipped"

\* C26, as stated: with keep=false, a unit that begins after the stop flag
\* has tripped issues no backend command, creates no directory and records
\* no failure, and no project is submitted once the flag has tripped; a unit
\* in progress when the flag trips is not interrupted.  With keep=true the
\* flag is never consulted and every unit runs.
C26_NoSubmissionAfterTrip ==
    [][/\ UnitsHonourFlag
       /\ FlagTripped => (nextIdx' = nextIdx \/ run' # run)
       /\ (options.keep /\ mainPc = "submit"
           /\ nextIdx <= Len(ProjectsToSync)) => mainPc' \in {"submit", "execute"}]_vars

\* C26, amended: as above, except that the submission loop tests the flag
\* at the head of each iteration only: once the flag has tripped the loop
\* starts no further iteration, but the one project whose iteration had
\* already passed the test is still submitted; its unit is then skipped.
C26_StopFlagGatesUnits ==
    [][/\ UnitsHonourFlag
       /\ FlagTripped =>
             /\ mainPc = "submit" => mainPc' \in {"submit", "join"}
             /\ (nextIdx' # nextIdx /\ run' = run) =>
                   /\ mainPc = "execute"
                   /\ nextIdx' = nextIdx + 1
                   /\ mainPc' = "submit"
       /\ (options.keep /\ mainPc = "submit"
           /\ nextIdx <= Len(ProjectsToSync)) => mainPc' \in {"submit", "execute"}]_vars

\* the first unit failed and tripped the flag, the second began after that
\* and was skipped without a command
C26_Witness ==
    /\ FlagTripped
    /\ Len(ProjectsToSync) = 2
    /\ unit[1] = "failed"
    /\ unit[2] = "skipped"
    /\ cmds[2] = <<>>
    /\ Len(errors) = 1
    /\ ~Exists(fs, UnitPath(2))

(***************************************************************************)
(* The failure list, checked under Spec.                                   *)
(***************************************************************************)
\* the units whose failure has been appended
Recorded == {i \in Units : unit[i] \in {"flag", "failed"}}
EntryOf(i) == <<ProjectsToSync[i].name, pendingErr[i].msg>>

\* C27: after the join barrier the failure list holds exactly one
\* (projectName, errorMessage) entry for each unit whose body failed and
\* none for a unit that succeeded or was skipped: no append is lost or
\* duplicated under any interleaving; the stop flag is set only in states
\* where the list is non-empty.
C27_FailureListExact ==
    mainPc # "idle" =>
        /\ stop_flag => errors # <<>>
        /\ Len(errors) = Cardinality(Recorded)
        /\ \A i \in Recorded :
              Cardinality({k \in 1..Len(errors) : errors[k] = EntryOf(i)}) = 1
        /\ PastJoin =>
              /\ Recorded = {i \in Units : Failed(i)}
              /\ \A k \in 1..Len(errors) :
                    \E i \in Units : Failed(i) /\ errors[k] = EntryOf(i)
              /\ \A i \in Units :
                    unit[i] \in {"ok", "skipped", "new"} =>
                        \A k \in 1..Len(errors) :
                            errors[k][1] # ProjectsToSync[i].name

\* two workers, both units failed, each for its own reason
C27_Witness ==
    /\ PastJoin
    /\ jobs = 2
    /\ Len(errors) = 2
    /\ Failed(1) /\ Failed(2)
    /\ errors[1][1] = ProjectsToSync[2].name
    /\ errors[1][2] # errors[2][2]

(***************************************************************************)
(* Clone or update on an empty target, checked under Spec.                 *)
(***************************************************************************)
DistinctPaths ==
    \A i, j \in Units : i # j => Resolve(UnitPath(i)) # Resolve(UnitPath(j))

\* C29: on a sync against an empty target directory every selected project
\* takes the clone path, under every interleaving of the units and for
\* every manifest whose projects have pairwise distinct paths, one path
\* being a parent directory of another included: the decision of a unit
\* never depends on the progress of another unit.
C29_EmptyTargetAlwaysClones ==
    (run = 1 /\ DistinctPaths) =>
        \A i \in Units :
            /\ unit[i] \notin UpdatePcs
            /\ "ufetch" \notin Range(cmds[i])

(***************************************************************************)
(* Projects and the target directory, checked under Spec.                  *)
(***************************************************************************)
InsideTarget(p) == StartsWith(Resolve(p), TargetRoot)

\* C28: during sync every directory created for a project and the working
\* directory of every backend command lie inside targetRoot, for every
\* project of the effective manifest, a project whose path is absolute
\* included.
C28_ProjectsStayInsideTarget ==
    mainPc # "idle" =>
        /\ \A i \in Units : cmds[i] # <<>> => InsideTarget(UnitPath(i))
        /\ \A p \in PathUniverse : fs[p].kind = "dir" => InsideTarget(p)
        /\ \A p \in PathUniverse : repo[p].git => InsideTarget(p)

(***************************************************************************)
(* Rejected directives and the filesystem, checked under Spec.             *)
(***************************************************************************)
\* the errors a directive returns for the state of the files it names
FileStateMsgs ==
    {"Source does not exist", "Source is not a file",
     "Destination is a directory", "Destination is not a file"}

\* C30: a copy or link directive rejected for file state (source missing,
\* source not a regular file for a copy, destination an existing directory,
\* destination existing but not a file) leaves the filesystem unchanged: no
\* parent directory of dest has been created when it returns its error.
C30_RejectedDirectiveChangesNothing ==
    [][(/\ DirectivePending
        /\ mainPc' = "done"
        /\ result'.status = "err"
        /\ result'.msg \in FileStateMsgs) => fs' = fs]_vars

====
